---- MODULE Spec2Model ----
(***************************************************************************)
(* Model of livestack/stacking_service.py: the Stacker ingestion worker,   *)
(* the DB (processed ledger and stack store), the calibration, alignment   *)
(* and running-average stages, and the output-queue fan-out.               *)
(*                                                                         *)
(* Pixel grids are two pixels wide; a pixel is an exact rational <<n, d>>  *)
(* (numpy's float arithmetic without rounding), <<0, 0>> being a           *)
(* non-finite value (inf or NaN).                                          *)
(*                                                                         *)
(* Spec and FairSpec follow one pipeline instance; RestartSpec adds the    *)
(* death of the process (between or inside worker steps) and the           *)
(* construction of a new pipeline on the same folders.                     *)
(***************************************************************************)
EXTENDS Integers, Sequences, FiniteSets, TLC

\* ---------------------------------------------------------------- bounds
MaxSubmits == 2
MaxSubs == 2
MaxRestarts == 1

\* ------------------------------------------------------------ arithmetic
RECURSIVE GCD(_, _)
GCD(a, b) == IF b = 0 THEN a ELSE GCD(b, a % b)

Abs(x) == IF x < 0 THEN -x ELSE x

NaN == <<0, 0>>

Frac(n, d) ==
    IF d = 0 THEN NaN
    ELSE LET g == GCD(Abs(n), Abs(d))
             s == IF d < 0 THEN -1 ELSE 1
         IN  <<(s * n) \div g, (s * d) \div g>>

Num(n) == <<n, 1>>

IsFinite(x) == x[2] # 0

FAdd(x, y) ==
    IF IsFinite(x) /\ IsFinite(y)
    THEN Frac(x[1] * y[2] + y[1] * x[2], x[2] * y[2]) ELSE NaN

FSub(x, y) ==
    IF IsFinite(x) /\ IsFinite(y)
    THEN Frac(x[1] * y[2] - y[1] * x[2], x[2] * y[2]) ELSE NaN

FMul(x, y) ==
    IF IsFinite(x) /\ IsFinite(y)
    THEN Frac(x[1] * y[1], x[2] * y[2]) ELSE NaN

FDiv(x, y) ==
    IF IsFinite(x) /\ IsFinite(y)
    THEN Frac(x[1] * y[2], x[2] * y[1]) ELSE NaN

\* element-wise operations on a pixel grid
ArrAdd(a, b) == [i \in DOMAIN a |-> FAdd(a[i], b[i])]
ArrSub(a, b) == [i \in DOMAIN a |-> FSub(a[i], b[i])]
ArrDiv(a, b) == [i \in DOMAIN a |-> FDiv(a[i], b[i])]
ArrScale(a, k) == [i \in DOMAIN a |-> FMul(a[i], k)]
ArrMean(a) == FDiv(FAdd(a[1], a[2]), Num(2))

\* ----------------------------------------------------------------- frames
\* submitted paths: two names that differ in a trailing blank only
Paths == {"p1", "p1 "}

\* the strings the ledger can hold, and their characters
Strings == Paths \cup {"p1"}

Chars(s) ==
    CASE s = "p1"  -> <<"p", "1">>
      [] s = "p1 " -> <<"p", "1", " ">>

Str(cs) == CHOOSE s \in Strings : Chars(s) = cs

\* str.rstrip(): trailing whitespace, the line end included, is dropped
Whitespace == {" ", "\t", "\n", "\r"}

RECURSIVE Rstrip(_)
Rstrip(cs) ==
    IF cs # <<>> /\ cs[Len(cs)] \in Whitespace
    THEN Rstrip(SubSeq(cs, 1, Len(cs) - 1))
    ELSE cs

\* DB.mark_processed: the line written for a path
LedgerLine(path) == Chars(path) \o <<"\n">>

\* DB.__init__: the ledger read back from the processed file, line by line
LoadLedger(lines) == [i \in DOMAIN lines |-> Str(Rstrip(lines[i]))]

Pix(a, b) == <<Num(a), Num(b)>>

Roles == {"LIGHT", "DARK", "FLAT"}

None == "None"

\* Image.__init__: the record built from a decoded HDU.  All frames share
\* one camera, exposure, gain, temperature bucket, target and filter.
Image(image_type, card, data) ==
    [image_type |-> image_type,
     subcount   |-> IF card = 0 THEN 1 ELSE card,
     data       |-> data,
     dark       |-> None]

\* what a decode can return: a frame of each role without SUBCOUNT card, a
\* dark frame carrying one, and a frame whose IMAGETYP names no role
Frames ==
    {Image("LIGHT", 0, Pix(2, 6)), Image("DARK", 0, Pix(4, 4)), Image("FLAT", 0, Pix(2, 6)),
     Image("DARK", 2, Pix(4, 4)), Image("NONE", 0, Pix(4, 4))}

Key(img) ==
    CASE img.image_type = "LIGHT" -> "X_LIGHT_M31_R_10.0_100_20"
      [] img.image_type = "DARK"  -> "X_DARK_10.0_100_20"
      [] img.image_type = "FLAT"  -> "X_FLAT_R_100_20"
      [] OTHER -> None

DarkKey(img) ==
    IF img.image_type \in {"LIGHT", "FLAT"} THEN "X_DARK_10.0_100_20" ELSE None

FlatKey(img) ==
    IF img.image_type = "LIGHT" THEN "X_FLAT_R_100_20" ELSE None

Keys == {"X_LIGHT_M31_R_10.0_100_20", "X_DARK_10.0_100_20", "X_FLAT_R_100_20"}


\* ------------------------------------------------------------ collaborators
\* skimage.filters.gaussian: a normalised, symmetric low-pass kernel
Gaussian(data) ==
    <<FDiv(FAdd(FMul(Num(3), data[1]), data[2]), Num(4)),
      FDiv(FAdd(data[1], FMul(Num(3), data[2])), Num(4))>>

\* astroalign.register: the transform found maps the frame onto the reference
Transforms == {"same", "flip"}
Register(data, t) == IF t = "flip" THEN <<data[2], data[1]>> ELSE data

\* ------------------------------------------------------------------- files
NoFile == [image_type |-> None]

\* the None returned in place of an Image
NoImage == [image_type |-> None]

\* a stack file whose write was cut short: it exists and cannot be decoded
PartialFile == [image_type |-> "PARTIAL"]

\* Image.fits_header and Image.save_fits: the HDU written for an image.  The
\* remapped 16-bit copy is computed and dropped; self.data is what is written.
SaveFits(img) ==
    [image_type |-> img.image_type,
     subcount   |-> img.subcount,
     history    |-> img.dark,
     data       |-> img.data]

\* DB.get_stacked_image: Image(f[0]) of the stored HDU, None when unreadable
GetStackedImage(fs, key) ==
    IF key \in DOMAIN fs /\ fs[key] \notin {NoFile, PartialFile}
    THEN Image(fs[key].image_type, fs[key].subcount, fs[key].data)
    ELSE NoImage

\* mutant: every key is taken to have a stack
StackExistsAlways(fs, img) == TRUE

\* DB.stack_exists
StackExists(fs, img) == fs[Key(img)] # NoFile

\* Stacker._subtract_dark
SubtractDark(fs, img) ==
    LET dark == GetStackedImage(fs, DarkKey(img))
    IN  IF dark = NoImage THEN img
        ELSE [img EXCEPT !.data = ArrSub(img.data, dark.data),
                         !.dark = DarkKey(img)]

\* Stacker._divide_flat
DivideFlat(fs, img) ==
    LET flat == GetStackedImage(fs, FlatKey(img))
    IN  IF flat = NoImage THEN img.data
        ELSE LET m == ArrMean(flat.data)
             IN  ArrDiv(img.data, [i \in DOMAIN flat.data |-> FDiv(flat.data[i], m)])

\* mutant: the new frame is weighted like the whole stack
RunningAverageUnweighted(count, s, d) ==
    [i \in DOMAIN s |-> FDiv(FAdd(s[i], d[i]), Num(2))]

\* Stacker._stack: the combination law
RunningAverage(count, s, d) ==
    [i \in DOMAIN s |->
        FDiv(FAdd(FMul(Num(count), s[i]), d[i]), Num(count + 1))]

\* Stacker._stack: the pixels merged for a role
MergeData(img) ==
    IF img.image_type = "LIGHT" THEN img.data ELSE Gaussian(img.data)

\* Stacker._stack: the stack after the merge
Stacked(stacked, img) ==
    [stacked EXCEPT !.data = RunningAverage(stacked.subcount, stacked.data, MergeData(img)),
                    !.subcount = stacked.subcount + 1]


\* ------------------------------------------------------------------- state
VARIABLES
    queue,          \* Stacker.queue: paths submitted and not yet dequeued
    processed,      \* DB.processed: the ledger, a list of paths
    files,          \* storage folder: stack key -> stored HDU or NoFile
    pngs,           \* output folder: keys whose preview png has been written
    output_queues,  \* Stacker.output_queues: the dict's entries in insertion order
    chan,           \* subscription id -> the number of png paths put on its Queue
    nextId,         \* ids handed out so far (uuid4: never reused)
    thread,         \* Stacker.thread: None or "started"
    _stop,          \* Stacker._stop
    wpc,            \* worker thread: position in _worker / _process_item
    item,           \* worker thread: the dequeued path
    iter,           \* worker thread: the dict iterator of the delivery loop
    stpc,           \* the caller of stop(): "idle", "joining", "returned", "raised"
    submits,        \* number of stack_image calls made
    ledgerFile,     \* storage folder: the lines of the processed file
    restarts,       \* Stacker instances constructed on the storage folder after the first
    cur,            \* history of the item being processed (stages run, decoded pixels, ...)
    hist            \* history of the run (mutations and marks per path, contributions)

vars == <<queue, processed, files, pngs, output_queues, chan, nextId, thread, _stop,
          wpc, item, iter, stpc, submits, ledgerFile, restarts, cur, hist>>

Ids == 1..MaxSubs

NoIter == [i |-> 0, used |-> 0, q |-> 0]

NoCur == [log |-> <<>>, raw |-> <<>>, pre |-> NoImage, new |-> <<>>, err |-> None,
          img |-> NoImage, existed |-> FALSE, subOut |-> <<>>, divIn |-> <<>>,
          regs |-> {}, before |-> <<>>, during |-> {}, throughout |-> {}]

\* the ids registered in the dict: an entry stays in its slot, dead, once deleted
Registered(oq) == {oq[i].id : i \in {j \in DOMAIN oq : oq[j].live}}

\* ------------------------------------------------------------------ stores
EmptyStore == [k \in Keys |-> NoFile]

Seed(t, d) == SaveFits(Image(t, 0, d))

\* storage roots left behind by earlier runs that seeded calibration stacks
CalibratedStore ==
    [EmptyStore EXCEPT !["X_DARK_10.0_100_20"] = Seed("DARK", Pix(4, 4)),
                       !["X_FLAT_R_100_20"] = Seed("FLAT", Pix(2, 6))]

LightStore ==
    [CalibratedStore EXCEPT !["X_LIGHT_M31_R_10.0_100_20"] = Seed("LIGHT", Pix(4, 4))]

InitStores == {EmptyStore, LightStore}

\* contributions known for a store: a stack of count 1 is its own seed
Contribs(fs) ==
    [k \in Keys |->
        IF fs[k] # NoFile /\ fs[k].subcount = 1
        THEN [ok |-> TRUE, n |-> 1, sum |-> fs[k].data, raws |-> {fs[k].data}]
        ELSE [ok |-> FALSE, n |-> 0, sum |-> <<>>, raws |-> {}]]

Init ==
    /\ queue = <<>>
    /\ ledgerFile = <<>>
    /\ processed = LoadLedger(ledgerFile)
    /\ restarts = 0
    /\ files \in InitStores
    /\ pngs = {}
    /\ output_queues = <<>>
    /\ chan = [id \in Ids |-> 0]
    /\ nextId = 0
    /\ thread = None
    /\ _stop = FALSE
    /\ wpc = "idle"
    /\ item = None
    /\ iter = NoIter
    /\ stpc = "idle"
    /\ submits = 0
    /\ cur = NoCur
    /\ hist = [nMut |-> [p \in Paths |-> 0],
               nMark |-> [p \in Paths |-> 0],
               threads |-> 0,
               contrib |-> Contribs(files)]


\* ----------------------------------------------------------- caller threads
\* Stacker.stack_image
StackImage(path) ==
    /\ submits < MaxSubmits
    /\ queue' = Append(queue, path)
    /\ submits' = submits + 1
    /\ UNCHANGED <<ledgerFile, restarts, processed, files, pngs, output_queues, chan,
                   nextId, thread, _stop, wpc, item, iter, stpc, cur, hist>>

Delivering == wpc \in {"notify_next", "notify_put"}

\* Stacker.add_output_queue
AddOutputQueue ==
    /\ nextId < MaxSubs
    /\ nextId' = nextId + 1
    /\ output_queues' = Append(output_queues, [id |-> nextId + 1, live |-> TRUE])
    /\ cur' = IF Delivering THEN [cur EXCEPT !.during = @ \cup {nextId + 1}] ELSE cur
    /\ UNCHANGED <<ledgerFile, restarts, queue, processed, files, pngs, chan, thread,
                   _stop, wpc, item, iter, stpc, submits, hist>>

\* Stacker.remove_output_queue, for an id the dict holds
RemoveOutputQueue(id) ==
    /\ id \in Registered(output_queues)
    /\ output_queues' = [i \in DOMAIN output_queues |->
                            IF output_queues[i].id = id
                            THEN [output_queues[i] EXCEPT !.live = FALSE]
                            ELSE output_queues[i]]
    /\ cur' = IF Delivering THEN [cur EXCEPT !.throughout = @ \ {id}] ELSE cur
    /\ UNCHANGED <<ledgerFile, restarts, queue, processed, files, pngs, chan, nextId,
                   thread, _stop, wpc, item, iter, stpc, submits, hist>>

\* mutant: start() never finds a thread
ThreadSetNever == FALSE

\* Stacker.start: the test of self.thread
ThreadSet == thread # None

\* Stacker.start; with a thread already set it returns at once
Start ==
    IF ThreadSet
    THEN UNCHANGED vars
    ELSE /\ thread' = "started"
         /\ wpc' = "loop"
         /\ hist' = [hist EXCEPT !.threads = @ + 1]
         /\ UNCHANGED <<ledgerFile, restarts, queue, processed, files, pngs,
                        output_queues, chan, nextId, _stop, item, iter, stpc, submits,
                        cur>>

\* Stacker.stop: set the flag, then join (None.join raises for a pipeline never started)
Stop ==
    /\ stpc = "idle"
    /\ _stop' = TRUE
    /\ stpc' = IF thread = None THEN "raised" ELSE "joining"
    /\ UNCHANGED <<ledgerFile, restarts, queue, processed, files, pngs, output_queues,
                   chan, nextId, thread, wpc, item, iter, submits, cur, hist>>

\* Thread.join returns once _worker has returned
Join ==
    /\ stpc = "joining"
    /\ wpc = "exit"
    /\ stpc' = "returned"
    /\ UNCHANGED <<ledgerFile, restarts, queue, processed, files, pngs, output_queues,
                   chan, nextId, thread, _stop, wpc, item, iter, submits, cur, hist>>


\* mutant: the loop never looks at the stop flag
LoopContinuesAlways == TRUE

\* ------------------------------------------------------------ worker thread
\* Stacker._worker: the loop condition
LoopContinues == ~_stop

\* mutant: the exception leaves _worker and ends the thread
OnExceptionUncaught == "exit"

\* Stacker._worker: where an exception of _process_item lands (except, then finally)
OnException == "finally"

\* mutant: the ledger check never finds the path
IsAlreadyProcessedNever(ledger, path) == FALSE

\* DB.is_already_processed
IsAlreadyProcessed(ledger, path) == \E i \in DOMAIN ledger : ledger[i] = path

\* mutant: a LIGHT frame goes to the flat division without dark subtraction
AfterExistsNoDark(image) ==
    CASE image.image_type = "LIGHT" -> "divide_flat"
      [] image.image_type = "DARK"  -> "stack"
      [] image.image_type = "FLAT"  -> "subtract_dark"

\* _process_item: the stage after stack_exists has answered True
AfterExists(image) ==
    CASE image.image_type = "LIGHT" -> "subtract_dark"
      [] image.image_type = "DARK"  -> "stack"
      [] image.image_type = "FLAT"  -> "subtract_dark"

\* _process_item: the stage after _subtract_dark
AfterSubtractDark(image) ==
    IF image.image_type = "LIGHT" THEN "divide_flat" ELSE "stack"

\* _process_item: the stage after _stack
AfterStack(image) ==
    IF image.image_type = "LIGHT" THEN "png" ELSE "finally"

\* _process_item: the stage after the first-occurrence save_stretched_png
AfterSeedPng(image) == "finally"

\* mutant: the iteration does not skip deleted entries
NextEntryAny(oq, i) ==
    LET all == {j \in DOMAIN oq : j >= i}
    IN  IF all = {} THEN 0 ELSE CHOOSE j \in all : \A k \in all : j <= k

\* the dict iterator's next live entry at or after slot i, 0 at the end
NextEntry(oq, i) ==
    LET live == {j \in DOMAIN oq : j >= i /\ oq[j].live}
    IN  IF live = {} THEN 0 ELSE CHOOSE j \in live : \A k \in live : j <= k

\* ---- _process_item, stage by stage, on the worker's view st of the state:
\* st.pc the stage to run, st.img the Image in hand, st.processed, st.files and
\* st.pngs the ledger and the two folders, st.cur and st.hist the histories.

Logged(st, name) == [st EXCEPT !.cur.log = Append(@, name)]

Raised(st, name) == [st EXCEPT !.pc = OnException, !.cur.err = name]

\* the ledger check
P_Process(st, path) ==
    IF IsAlreadyProcessed(st.processed, path)
    THEN [Logged(st, "skip") EXCEPT !.pc = "finally"]
    ELSE [st EXCEPT !.pc = "decode"]

\* fits.open(path) and Image(fit[0]): a frame d, or an error (unreadable file,
\* missing card) when d is NoImage
P_Decode(st, d) ==
    IF d = NoImage
    THEN Raised(Logged(st, "decode"), "decode")
    ELSE [Logged(st, "decode") EXCEPT !.img = d, !.cur.raw = d.data, !.pc = "mark"]

\* DB.mark_processed
P_Mark(st, path) ==
    [Logged(st, "mark") EXCEPT !.processed = Append(@, path),
                               !.ledgerFile = Append(@, LedgerLine(path)),
                               !.hist.nMark[path] = @ + 1,
                               !.pc = "exists"]

\* DB.stack_exists(img); img.key raises for an image that set no image_type
P_Exists(st) ==
    IF st.img.image_type = "NONE"
    THEN Raised(st, "key")
    ELSE [st EXCEPT !.pc = IF StackExists(st.files, st.img)
                           THEN AfterExists(st.img) ELSE "seed_fits",
                    !.cur.existed = st.files[Key(st.img)] # NoFile]

\* first occurrence: img.save_fits
P_SeedFits(st, path) ==
    [Logged(st, "seed") EXCEPT
        !.files[Key(st.img)] = SaveFits(st.img),
        !.hist.nMut[path] = @ + 1,
        !.hist.contrib[Key(st.img)] =
            [ok |-> st.img.subcount = 1, n |-> 1, sum |-> st.img.data,
             raws |-> {st.cur.raw}],
        !.pc = "seed_png"]

\* first occurrence: img.save_stretched_png
P_SeedPng(st) ==
    [Logged(st, "render") EXCEPT !.pngs = @ \cup {Key(st.img)},
                                 !.pc = AfterSeedPng(st.img)]

P_SubtractDark(st) ==
    [Logged(st, "subtract_dark") EXCEPT !.img = SubtractDark(st.files, st.img),
                                        !.cur.subOut = SubtractDark(st.files, st.img).data,
                                        !.pc = AfterSubtractDark(st.img)]

P_DivideFlat(st) ==
    [Logged(st, "divide_flat") EXCEPT !.img.data = DivideFlat(st.files, st.img),
                                      !.cur.divIn = st.img.data,
                                      !.pc = "align"]

\* Stacker._align: aa.register finds the transform t, or raises when t is "fail"
P_Align(st, t) ==
    IF t = "fail" \/ GetStackedImage(st.files, Key(st.img)) = NoImage
    THEN Raised(Logged(st, "align"), "align")
    ELSE [Logged(st, "align") EXCEPT !.img.data = Register(st.img.data, t),
                                     !.pc = "stack"]

\* Stacker._stack: load, combine, save
P_Stack(st, path) ==
    LET stacked == GetStackedImage(st.files, Key(st.img))
    IN  IF stacked = NoImage
        THEN Raised(st, "stack")
        ELSE [st EXCEPT
                !.files[Key(st.img)] = SaveFits(Stacked(stacked, st.img)),
                !.hist.nMut[path] = @ + 1,
                !.hist.contrib[Key(st.img)] =
                    IF @.ok
                    THEN [ok |-> TRUE, n |-> @.n + 1,
                          sum |-> ArrAdd(@.sum, MergeData(st.img)),
                          raws |-> @.raws \cup {st.cur.raw}]
                    ELSE @,
                !.cur.log = @ \o (IF st.img.image_type = "LIGHT" THEN <<"merge">>
                                  ELSE <<"gaussian", "merge">>),
                !.cur.pre = stacked,
                !.cur.new = MergeData(st.img),
                !.pc = AfterStack(st.img)]

\* stacked.save_stretched_png
P_Png(st) ==
    [Logged(st, "render") EXCEPT !.pngs = @ \cup {Key(st.img)}, !.pc = "notify"]

Step(st, path, d, t) ==
    CASE st.pc = "process"       -> P_Process(st, path)
      [] st.pc = "decode"        -> P_Decode(st, d)
      [] st.pc = "mark"          -> P_Mark(st, path)
      [] st.pc = "exists"        -> P_Exists(st)
      [] st.pc = "seed_fits"     -> P_SeedFits(st, path)
      [] st.pc = "seed_png"      -> P_SeedPng(st)
      [] st.pc = "subtract_dark" -> P_SubtractDark(st)
      [] st.pc = "divide_flat"   -> P_DivideFlat(st)
      [] st.pc = "align"         -> P_Align(st, t)
      [] st.pc = "stack"         -> P_Stack(st, path)
      [] st.pc = "png"           -> P_Png(st)

\* the stages run one after the other until the delivery loop, the end of
\* _process_item or an exception
RECURSIVE RunItem(_, _, _, _)
RunItem(st, path, d, t) ==
    IF st.pc \in {"notify", "finally", "exit"} THEN st
    ELSE CHOOSE r \in {RunItem(n, path, d, t) : n \in {Step(st, path, d, t)}} : TRUE

W_Loop ==
    /\ wpc = "loop"
    /\ wpc' = IF LoopContinues THEN "get" ELSE "exit"
    /\ UNCHANGED <<ledgerFile, restarts, queue, processed, files, pngs, output_queues,
                   chan, nextId, thread, _stop, item, iter, stpc, submits, cur, hist>>

\* mutant: the newest path is taken first
W_GetLast ==
    /\ wpc = "get"
    /\ \/ /\ queue # <<>>
          /\ item' = queue[Len(queue)]
          /\ queue' = SubSeq(queue, 1, Len(queue) - 1)
          /\ wpc' = "process"
       \/ /\ queue = <<>>
          /\ wpc' = "loop"
          /\ UNCHANGED <<item, queue>>
    /\ UNCHANGED <<ledgerFile, restarts, processed, files, pngs, output_queues, chan,
                   nextId, thread, _stop, iter, stpc, submits, cur, hist>>

\* queue.get(timeout=1): an item, or Empty after the wait
W_Get ==
    /\ wpc = "get"
    /\ \/ /\ queue # <<>>
          /\ item' = Head(queue)
          /\ queue' = Tail(queue)
          /\ wpc' = "process"
       \/ /\ queue = <<>>
          /\ wpc' = "loop"
          /\ UNCHANGED <<item, queue>>
    /\ UNCHANGED <<ledgerFile, restarts, processed, files, pngs, output_queues, chan,
                   nextId, thread, _stop, iter, stpc, submits, cur, hist>>

\* the worker's view of the state on entry to _process_item
ItemStart ==
    [pc |-> "process", img |-> NoImage, processed |-> processed, files |-> files,
     pngs |-> pngs, ledgerFile |-> ledgerFile, cur |-> NoCur, hist |-> hist]

\* _process_item(item) up to its delivery loop; the for statement then takes
\* iter(self.output_queues.values())
W_ProcessItem ==
    /\ wpc = "process"
    /\ \E d \in Frames \cup {NoImage}, t \in Transforms \cup {"fail"} :
       \E st \in {RunItem(ItemStart, item, d, t)} :
          LET regs == Registered(output_queues)
          IN  /\ processed' = st.processed
              /\ ledgerFile' = st.ledgerFile
              /\ files' = st.files
              /\ pngs' = st.pngs
              /\ hist' = st.hist
              /\ IF st.pc = "notify"
                 THEN /\ wpc' = "notify_next"
                      /\ iter' = [i |-> 1, used |-> Cardinality(regs), q |-> 0]
                      /\ cur' = [st.cur EXCEPT !.img = st.img, !.regs = regs,
                                               !.before = chan, !.during = regs,
                                               !.throughout = regs]
                 ELSE /\ wpc' = st.pc
                      /\ iter' = NoIter
                      /\ cur' = [st.cur EXCEPT !.img = st.img, !.regs = regs,
                                               !.before = chan]
    /\ UNCHANGED <<restarts, queue, output_queues, chan, nextId, thread, _stop, item,
                   stpc, submits>>

\* the for loop's next(): RuntimeError when the dict changed size, else the next value
W_NotifyNext ==
    /\ wpc = "notify_next"
    /\ IF Cardinality(Registered(output_queues)) # iter.used
       THEN /\ wpc' = OnException
            /\ cur' = [cur EXCEPT !.err = "notify"]
            /\ iter' = iter
       ELSE LET j == NextEntry(output_queues, iter.i)
            IN  IF j = 0
                THEN /\ wpc' = "finally"
                     /\ cur' = [cur EXCEPT !.log = Append(@, "notify")]
                     /\ iter' = iter
                ELSE /\ wpc' = "notify_put"
                     /\ cur' = cur
                     /\ iter' = [iter EXCEPT !.i = j + 1, !.q = output_queues[j].id]
    /\ UNCHANGED <<ledgerFile, restarts, queue, processed, files, pngs, output_queues,
                   chan, nextId, thread, _stop, item, stpc, submits, hist>>

\* q.put(png_path)
W_NotifyPut ==
    /\ wpc = "notify_put"
    /\ chan' = [chan EXCEPT ![iter.q] = @ + 1]
    /\ wpc' = "notify_next"
    /\ UNCHANGED <<ledgerFile, restarts, queue, processed, files, pngs, output_queues,
                   nextId, thread, _stop, item, iter, stpc, submits, cur, hist>>

\* finally: queue.task_done(), and back to the loop condition
W_Finally ==
    /\ wpc = "finally"
    /\ wpc' = "loop"
    /\ item' = None
    /\ iter' = NoIter
    /\ cur' = NoCur
    /\ UNCHANGED <<ledgerFile, restarts, queue, processed, files, pngs, output_queues,
                   chan, nextId, thread, _stop, stpc, submits, hist>>

Worker ==
    \/ W_Loop \/ W_Get \/ W_ProcessItem \/ W_NotifyNext \/ W_NotifyPut \/ W_Finally

Next ==
    \/ \E path \in Paths : StackImage(path)
    \/ AddOutputQueue
    \/ \E id \in Ids : RemoveOutputQueue(id)
    \/ Start
    \/ Stop
    \/ Join
    \/ Worker

Spec == Init /\ [][Next]_vars

\* ------------------------------------------------------ crash and restart
\* Stacker.__init__ and DB.__init__ in a new process, on the storage folder
\* (stacks fs, processed file lf) and the output folder pg left by the process
\* before it; what was in memory (queue, registry, flags, thread) is gone
Reinit(fs, pg, lf, h) ==
    /\ restarts < MaxRestarts
    /\ restarts' = restarts + 1
    /\ files' = fs
    /\ pngs' = pg
    /\ ledgerFile' = lf
    /\ processed' = LoadLedger(lf)
    /\ queue' = <<>>
    /\ output_queues' = <<>>
    /\ chan' = [id \in Ids |-> 0]
    /\ nextId' = 0
    /\ thread' = None
    /\ _stop' = FALSE
    /\ wpc' = "idle"
    /\ item' = None
    /\ iter' = NoIter
    /\ stpc' = "idle"
    /\ cur' = NoCur
    /\ hist' = [h EXCEPT !.threads = 0]
    /\ submits' = submits

\* the process ends between two steps of the worker (after stop(), or killed)
\* and a new pipeline is constructed on the same folders
Restart == Reinit(files, pngs, ledgerFile, hist)

\* the stages of _process_item before which the process can be killed
CrashPoints ==
    {"decode", "mark", "exists", "seed_fits", "seed_png", "subtract_dark",
     "divide_flat", "align", "stack", "png"}

\* the stages run one after the other until stage at is reached
RECURSIVE RunItemUntil(_, _, _, _, _)
RunItemUntil(st, path, d, t, at) ==
    IF st.pc \in {"notify", "finally", "exit", at} THEN st
    ELSE CHOOSE r \in {RunItemUntil(n, path, d, t, at) : n \in {Step(st, path, d, t)}} : TRUE

\* HDUList.writeto(path, overwrite=True) removes the file of that name and
\* writes the new one in place: killed inside a save that takes the store
\* from before to after, the process leaves the store untouched, the file
\* removed, or the file partly written
TornStores(before, after) ==
    {before} \cup
    {[before EXCEPT ![k] = f] : k \in {j \in Keys : after[j] # before[j]},
                               f \in {NoFile, PartialFile}}

\* the process is killed inside _process_item, at or inside stage at
W_CrashItem ==
    /\ wpc = "process"
    /\ \E d \in Frames \cup {NoImage}, t \in Transforms \cup {"fail"}, at \in CrashPoints :
       \E st \in {RunItemUntil(ItemStart, item, d, t, at)} :
          /\ st.pc = at
          /\ \E fs \in TornStores(st.files, Step(st, item, d, t).files) :
                 Reinit(fs, st.pngs, st.ledgerFile,
                        [st.hist EXCEPT !.contrib =
                            [k \in Keys |-> IF fs[k] # st.files[k]
                                            THEN [@[k] EXCEPT !.ok = FALSE] ELSE @[k]]])

RestartNext == Next \/ Restart \/ W_CrashItem

\* pipelines constructed one after the other on the same folders
RestartSpec == Init /\ [][RestartNext]_vars

\* a pipeline constructed on an empty storage folder
FreshInit == Init /\ files = EmptyStore

\* the worker thread is scheduled, and a blocked join wakes up
FairSpec == FreshInit /\ [][Next]_vars /\ WF_vars(Worker) /\ WF_vars(Join)

TypeOK ==
    /\ wpc \in {"idle", "loop", "get", "process", "notify_next", "notify_put",
                "finally", "exit"}
    /\ submits \in 0..MaxSubmits
    /\ nextId \in 0..MaxSubs
    /\ restarts \in 0..MaxRestarts
    /\ processed \in Seq(Strings)


\* ------------------------------------------------------------------- claims
IsPrefix(a, b) == Len(a) <= Len(b) /\ \A i \in 1..Len(a) : a[i] = b[i]

InLedger(path) == \E i \in 1..Len(processed) : processed[i] = path

Has(log, name) == \E i \in 1..Len(log) : log[i] = name

\* the item in hand has been through _process_item (or its delivery loop) and
\* the worker is about to leave it
ItemDone == wpc = "finally"

\* C1: each path causes at most one stack mutation (seed or merge) and is marked
\* at most once; the ledger only grows; a dequeue of a path the ledger already
\* holds is skipped: it changes no stack, no preview and no ledger entry and
\* starts no delivery.
C1_AtMostOnce ==
    \A p \in Paths : hist.nMut[p] <= 1 /\ hist.nMark[p] <= 1

C1_SkipStep ==
    (wpc = "process" /\ wpc' # "process" /\ InLedger(item))
        => /\ wpc' = "finally"
           /\ files' = files
           /\ pngs' = pngs
           /\ processed' = processed
           /\ chan' = chan
           /\ hist'.nMut = hist.nMut

C1_Idempotent ==
    /\ []C1_AtMostOnce
    /\ [][IsPrefix(processed, processed')]_vars
    /\ [][C1_SkipStep]_vars

C1_Witness ==
    /\ ItemDone
    /\ cur.log = <<"skip">>
    /\ hist.nMut[item] = 1
    /\ hist.nMark[item] = 1

\* C2 (as claimed): after an attempt on a path that was not in the ledger, the
\* path is in the ledger whatever the outcome, the mark coming before the decode.
C2_MarkedWhateverOutcome ==
    (ItemDone /\ cur.log # <<"skip">>)
        => /\ InLedger(item)
           /\ cur.log[1] = "mark"

\* C3: an exception raised at any stage of an item lands in the worker loop's
\* handler: the worker is then at its finally clause, not exited, the ledger
\* keeps every entry, and with another item queued the worker goes on to
\* dequeue it (unless stop has been requested).
C3_Caught == cur.err # None => wpc = "finally"

C3_Isolation ==
    /\ []C3_Caught
    /\ [][IsPrefix(processed, processed')]_vars
    /\ (cur.err # None /\ queue # <<>>) ~> (wpc = "process" \/ _stop)

C3_Witness ==
    /\ ItemDone
    /\ cur.err = None
    /\ Has(cur.log, "mark")
    /\ \E p \in Paths \ {item} : hist.nMark[p] = 1 /\ hist.nMut[p] = 0


\* C4: a successful merge into a stack of count c and pixels s leaves the stored
\* stack with count c + 1 and pixels p, where (c + 1) * p = c * s + newPixels; a
\* stack seeded with count 1 holds, after its merges, the equal-weight mean of
\* its n contributions with count n; n dark frames of constant value v give a
\* stack of value v and count n.
C4_Merged ==
    cur.pre # NoImage =>
        LET f == files[Key(cur.img)]
            c == cur.pre.subcount
        IN  /\ f.subcount = c + 1
            /\ ArrScale(f.data, Num(c + 1)) = ArrAdd(ArrScale(cur.pre.data, Num(c)), cur.new)

C4_Mean ==
    \A k \in Keys :
        hist.contrib[k].ok =>
            /\ files[k].subcount = hist.contrib[k].n
            /\ ArrScale(files[k].data, Num(hist.contrib[k].n)) = hist.contrib[k].sum

C4_Constant ==
    LET k == "X_DARK_10.0_100_20"
    IN  \A v \in 0..8 :
            (hist.contrib[k].ok /\ hist.contrib[k].raws = {Pix(v, v)})
                => /\ files[k].data = Pix(v, v)
                   /\ files[k].subcount = hist.contrib[k].n

C4_RunningAverage == C4_Merged /\ C4_Mean /\ C4_Constant

C4_Witness ==
    /\ ItemDone
    /\ cur.pre # NoImage
    /\ cur.pre.subcount = 2
    /\ cur.pre.data # cur.new
    /\ hist.contrib[Key(cur.img)].ok
    /\ hist.contrib[Key(cur.img)].n = 3

\* the pixels of the stored stack named key
StackData(key) == files[key].data

\* the unit-mean flat field of the stored flat stack
FlatField(key) ==
    [i \in 1..2 |-> FDiv(StackData(key)[i], ArrMean(StackData(key)))]

Full(role) ==
    CASE role = "LIGHT" -> <<"decode", "mark", "subtract_dark", "divide_flat", "align",
                             "merge", "render", "notify">>
      [] role = "FLAT"  -> <<"decode", "mark", "subtract_dark", "gaussian", "merge">>
      [] role = "DARK"  -> <<"decode", "mark", "gaussian", "merge">>

\* the item in hand is a frame of a role whose stack key existed at dispatch
OnExisting == Has(cur.log, "mark") /\ cur.img.image_type \in Roles /\ cur.existed

\* C5: for a frame whose stack key exists the stages run in the order
\* subtract dark, divide flat, align, merge, render, notify for a LIGHT frame,
\* subtract dark, merge for a FLAT frame and merge alone for a DARK frame (an
\* exception cuts the sequence short, a completed item has run all of it); the
\* flat division's input is the dark subtraction's output, which is the decoded
\* pixels minus the dark stack.
C5_StageOrder ==
    OnExisting =>
        /\ IsPrefix(cur.log, Full(cur.img.image_type))
        /\ (ItemDone /\ cur.err = None) => cur.log = Full(cur.img.image_type)
        /\ Has(cur.log, "divide_flat") =>
              /\ cur.divIn = cur.subOut
              /\ cur.subOut = IF files["X_DARK_10.0_100_20"] = NoFile THEN cur.raw
                              ELSE ArrSub(cur.raw, StackData("X_DARK_10.0_100_20"))
        /\ (Has(cur.log, "merge") /\ cur.img.image_type = "LIGHT"
               /\ files["X_FLAT_R_100_20"] # NoFile) =>
              \E t \in Transforms :
                  cur.new = Register(ArrDiv(cur.subOut, FlatField("X_FLAT_R_100_20")), t)

\* a LIGHT frame calibrated with both a dark and a flat stack, merged and
\* delivered, for which dividing before subtracting would give other pixels
C5_Witness ==
    /\ ItemDone
    /\ OnExisting
    /\ cur.img.image_type = "LIGHT"
    /\ cur.log = Full("LIGHT")
    /\ files["X_DARK_10.0_100_20"] # NoFile
    /\ files["X_FLAT_R_100_20"] # NoFile
    /\ ArrDiv(ArrSub(cur.raw, StackData("X_DARK_10.0_100_20")), FlatField("X_FLAT_R_100_20"))
         # ArrSub(ArrDiv(cur.raw, FlatField("X_FLAT_R_100_20")), StackData("X_DARK_10.0_100_20"))

\* C6: for a frame of any role whose stack key does not exist, the stages run
\* are decode, mark, seed and render only (no dark or flat lookup, no
\* alignment, no smoothing, no merge), and the stored seed's pixels are the
\* decoded frame's pixels.
C6_Seeding ==
    (ItemDone /\ Has(cur.log, "mark") /\ cur.img.image_type \in Roles /\ ~cur.existed)
        => /\ cur.log = <<"decode", "mark", "seed", "render">>
           /\ files[Key(cur.img)].data = cur.raw

\* a FLAT frame seeded while a dark stack it could have been calibrated with exists
C6_Witness ==
    /\ ItemDone
    /\ Has(cur.log, "seed")
    /\ cur.img.image_type = "FLAT"
    /\ files["X_DARK_10.0_100_20"] # NoFile


\* the number of notifications channel id has received since the item's render
Received(id) == chan[id] - cur.before[id]

\* C7 (as claimed): every preview rendered for a LIGHT frame, on seeding as on
\* merge, is delivered exactly once to every channel registered at the render;
\* a DARK or FLAT frame delivers nothing.
C7_FanOut ==
    (ItemDone /\ Has(cur.log, "render") /\ cur.err = None)
        => IF cur.img.image_type = "LIGHT"
           THEN \A id \in cur.regs : Received(id) = 1
           ELSE chan = cur.before

\* C8: a channel's Queue receives a path only in a put of a running delivery
\* and only if the channel was registered at some moment of that delivery (so
\* not if it was removed before the delivery began, and nothing of a delivery
\* that ended before it was added); a removed channel receives nothing more,
\* the put already in flight excepted; a channel never added holds nothing.
C8_ReceiveStep ==
    \A id \in Ids :
        chan'[id] # chan[id]
            => /\ wpc = "notify_put" /\ Delivering'
               /\ id \in cur.during
               /\ chan'[id] = chan[id] + 1

C8_RemovedStep ==
    \A id \in Ids :
        (id \notin Registered(output_queues) /\ ~(wpc = "notify_put" /\ iter.q = id))
            => chan'[id] = chan[id]

C8_Window ==
    /\ [](\A id \in Ids : id > nextId => chan[id] = 0)
    /\ [][C8_ReceiveStep]_vars
    /\ [][C8_RemovedStep]_vars

\* a finished delivery that reached channel b and not channel a, which was
\* removed before the delivery began
C8_Witness ==
    /\ ItemDone
    /\ Has(cur.log, "notify")
    /\ \E a, b \in 1..nextId :
          /\ a \notin cur.during
          /\ Received(a) = 0
          /\ Received(b) = 1

\* C9 (as claimed): with subscribe and unsubscribe running beside the delivery
\* loop, the loop raises no error and every channel registered throughout the
\* delivery has received its notification when the item is done.
C9_SafeIteration ==
    /\ cur.err # "notify"
    /\ (ItemDone /\ Has(cur.log, "render") /\ cur.existed) =>
          \A id \in cur.throughout : Received(id) >= 1

\* Worker state of the specification
WorkerState ==
    IF thread = None THEN "IDLE"
    ELSE IF wpc = "exit" THEN "STOPPED"
    ELSE IF _stop THEN "STOPPING" ELSE "RUNNING"

InItem == wpc \in {"process", "notify_next", "notify_put", "finally"}

\* C10: the worker leaves its loop only at the loop condition, with the stop
\* flag set, never from inside an item; once it has left it dequeues nothing
\* and stays STOPPED; stop() returns only with the worker STOPPED; and after
\* stop() on a started worker the worker does reach STOPPED and stop() returns.
C10_ExitStep ==
    /\ (wpc # "exit" /\ wpc' = "exit") => (wpc = "loop" /\ _stop /\ queue' = queue)
    /\ InItem => (wpc' # "exit" /\ item' \in {item, None})
    /\ wpc = "exit" => (wpc' = "exit" /\ IsPrefix(queue, queue'))

C10_CooperativeStop ==
    /\ [](stpc = "returned" => WorkerState = "STOPPED")
    /\ [][C10_ExitStep]_vars
    /\ (stpc = "joining") ~> (WorkerState = "STOPPED")
    /\ (stpc = "joining") ~> (stpc = "returned")

\* stop() has been called and waits in join while the worker, in the middle
\* of an item, is about to put a path on a channel's Queue
C10_Witness ==
    /\ stpc = "joining"
    /\ _stop
    /\ wpc = "notify_put"


\* C11: submit only appends the path to the queue and is accepted in every
\* worker state: it changes neither ledger nor stacks nor the worker's position;
\* the worker dequeues the oldest path, and only with no item in hand, every
\* stage of the item before being over.
C11_Accepted ==
    submits < MaxSubmits => \A p \in Paths : ENABLED StackImage(p)

C11_InHand == InItem <=> item # None

C11_SubmitStep ==
    submits' # submits
        => /\ \E p \in Paths : queue' = Append(queue, p)
           /\ processed' = processed
           /\ ledgerFile' = ledgerFile
           /\ files' = files
           /\ pngs' = pngs
           /\ <<wpc, item, thread, _stop, cur>>' = <<wpc, item, thread, _stop, cur>>

C11_DequeueStep ==
    (queue # <<>> /\ ~IsPrefix(queue, queue'))
        => /\ wpc = "get"
           /\ item = None
           /\ cur = NoCur
           /\ item' = Head(queue)
           /\ queue' = Tail(queue)
           /\ wpc' = "process"

C11_Sequential ==
    /\ []C11_Accepted
    /\ []C11_InHand
    /\ [][C11_SubmitStep]_vars
    /\ [][C11_DequeueStep]_vars

\* the second path submitted is in hand after the first went through its
\* stages, the worker having been told to stop meanwhile
C11_Witness ==
    /\ wpc = "process"
    /\ item = "p1 "
    /\ hist.nMut["p1"] = 1
    /\ _stop

InQueue(p) == \E i \in 1..Len(queue) : queue[i] = p

\* C12 (as claimed): with the worker started, a queued path is in the end
\* dequeued unless stop is requested, whatever happened to the items before
\* it; once its item is over the path has been skipped, or else marked and
\* attempted; no path is marked twice and the worker puts nothing back on the
\* queue.
C12_Attempted ==
    ItemDone => (cur.log = <<"skip">> \/ (Has(cur.log, "mark") /\ InLedger(item)))

C12_NoRetry ==
    /\ submits' = submits => IsPrefix(queue', queue) \/ queue' = Tail(queue)
    /\ \A p \in Paths : hist'.nMark[p] <= 1

C12_Dequeued ==
    \A p \in Paths : (InQueue(p) /\ thread # None) ~> (item = p \/ _stop)

C12_ForwardProgress ==
    /\ []C12_Attempted
    /\ [][C12_NoRetry]_vars
    /\ C12_Dequeued


\* C13 (as claimed): a path that mark_processed has recorded is in the ledger
\* of every pipeline constructed later on the same storage folder, after a
\* stop or a crash, so that it is never marked, hence never attempted, again.
C13_Durable ==
    \A p \in Paths : hist.nMark[p] > 0 => (InLedger(p) /\ hist.nMark[p] = 1)

\* C14 (as claimed): the storage folder never holds a partly written stack,
\* not even after a crash inside a save, and a stack the worker found to exist
\* at dispatch is one its load returns.
C14_AtomicSave ==
    /\ \A k \in Keys : files[k] # PartialFile
    /\ (ItemDone /\ cur.existed) => cur.err # "stack"


\* C15 (as claimed): a frame that seeds its stack renders a preview when it
\* is a LIGHT frame and none when it is a DARK or a FLAT frame.
C15_PreviewOnlyLight ==
    (ItemDone /\ Has(cur.log, "seed"))
        => (Has(cur.log, "render") <=> cur.img.image_type = "LIGHT")

\* C16 (as claimed): the stack a frame has just seeded has count 1, whatever
\* SUBCOUNT card the frame carries.
C16_SeedCount ==
    (ItemDone /\ Has(cur.log, "seed")) => files[Key(cur.img)].subcount = 1

\* C17 (as claimed): the stack written by the merge of a frame from which a
\* dark stack was subtracted carries that dark stack's key in its history.
C17_Provenance ==
    (ItemDone /\ Has(cur.log, "merge") /\ cur.img.dark # None)
        => files[Key(cur.img)].history = cur.img.dark

Rank(state) ==
    CASE state = "IDLE"     -> 0
      [] state = "RUNNING"  -> 1
      [] state = "STOPPING" -> 2
      [] state = "STOPPED"  -> 3

\* C18: the worker state never moves backwards along IDLE, RUNNING, STOPPING,
\* STOPPED; start() with a thread already set changes nothing; a pipeline
\* creates at most one worker thread, and has one exactly when it left IDLE.
C18_OneLoop ==
    /\ hist.threads <= 1
    /\ hist.threads = 1 <=> WorkerState # "IDLE"

C18_Step ==
    /\ Rank(WorkerState') >= Rank(WorkerState)
    /\ thread # None => (thread' = thread /\ hist'.threads = hist.threads)
    /\ (wpc' = "loop" /\ wpc \notin {"loop", "get", "finally"}) => thread = None

C18_StateMachine ==
    /\ []C18_OneLoop
    /\ [][C18_Step]_vars

\* a worker that went through all four states: it marked a path while
\* RUNNING, and stop() has returned
C18_Witness ==
    /\ WorkerState = "STOPPED"
    /\ stpc = "returned"
    /\ hist.threads = 1
    /\ \E p \in Paths : hist.nMark[p] = 1

\* the value np.interp maps the largest pixel to
PixelMax == 65535

InRange(x) == IsFinite(x) /\ 0 <= x[1] /\ x[1] <= PixelMax * x[2]

\* C19 (as claimed): every pixel of every stored stack lies in [0, 65535].
C19_SixteenBit ==
    \A k \in Keys :
        files[k] \notin {NoFile, PartialFile} =>
            \A i \in DOMAIN files[k].data : InRange(files[k].data[i])

\* C20 (as claimed): a path that no pipeline has dequeued and marked, such as
\* one left in the queue when the worker stopped, is in no ledger, of this
\* pipeline or of a later one on the same storage folder, and has changed no
\* stack: submitted again, it is not skipped.
C20_LeftInQueue ==
    \A p \in Paths : hist.nMark[p] = 0 => (~InLedger(p) /\ hist.nMut[p] = 0)

====
